---- MODULE Spec2Model ----
(***************************************************************************)
(* Model of credit_card_fraud.py: a Streamlit page that loads a classifier *)
(* and a mapping of label encoders once per process (st.cache_resource),   *)
(* shows a form, and on submission validates, preprocesses and predicts.   *)
(*                                                                         *)
(* One script run (the whole file, top to bottom) is one atomic step of a  *)
(* session.  The process-wide state is the resource cache, the files on    *)
(* disk and the string-hash seed of the interpreter; the per-session       *)
(* state is the form's widget values and what the last run rendered.       *)
(***************************************************************************)
EXTENDS Integers, Sequences, FiniteSets, TLC

VARIABLES
    files,      \* status of the two artifact files on disk
    disk,       \* what the two artifact files hold when they can be read
    hashseed,   \* the interpreter's string-hash randomisation, fixed per process
    cache,      \* st.cache_resource's entry for load_models
    nloads,     \* number of times the body of load_models has run
    page,       \* per session: closed, crashed, idle or submitted
    form,       \* per session: the widget values of transaction_form
    edited,     \* per session: a widget was edited since the last script run
    run         \* per session: what the last script run did and rendered

vars == <<files, disk, hashseed, cache, nloads, page, form, edited, run>>

Sessions == {"s1", "s2"}

\* Cap on executions of the loader body (it re-runs only while it raises).
MaxLoads == 2

(***************************************************************************)
(* Artifacts.  The classifier and the encoders are opaque objects read     *)
(* from disk; the model draws them from a small set of representatives.    *)
(* An encoder mapping is a function from column name to the sorted classes *)
(* the column's LabelEncoder was fitted on.                                *)
(***************************************************************************)
\* Python's None is the empty option; a loaded object x is <<x>>.
None == <<>>

Some(x) == <<x>>

FullEncoder ==
    [merchant |-> <<"Acme", "Bolt">>, category |-> <<"grocery">>,
     gender |-> <<"Female", "Male">>]

\* Fitted on a data set that spells gender F/M: the form's values are unseen.
AbbrevEncoder ==
    [merchant |-> <<"Acme", "Bolt">>, category |-> <<"grocery">>,
     gender |-> <<"F", "M">>]

\* A mapping without the gender column: encoder['gender'] raises KeyError.
ShortEncoder == [merchant |-> <<"Acme", "Bolt">>, category |-> <<"grocery">>]

\* An empty dict: loaded, but falsy.
EmptyEncoder == [c \in {} |-> <<>>]

\* The processes considered: what the artifact files hold, and the seed of
\* the interpreter's string hash.
Deployments ==
    { [model |-> "byAmount", encoder |-> AbbrevEncoder, seed |-> "seedA"],
      [model |-> "byCard",   encoder |-> FullEncoder,   seed |-> "seedB"],
      [model |-> "broken",   encoder |-> FullEncoder,   seed |-> "seedB"],
      [model |-> "byAmount", encoder |-> ShortEncoder,  seed |-> "seedA"],
      [model |-> "byAmount", encoder |-> EmptyEncoder,  seed |-> "seedB"] }

\* ok: both files readable; missing: at least one file absent; corrupt: the
\* files are present but joblib.load fails on one of them.
FileStates == {"ok", "missing", "corrupt"}

(***************************************************************************)
(* The form.  Widget defaults are those of the code; the other forms are   *)
(* the cases the handler distinguishes.  Amounts are whole dollars and     *)
(* coordinates whole degrees.                                              *)
(***************************************************************************)
DefaultForm ==
    [merchant |-> "", category |-> "", amt |-> 0,
     lat |-> 0, long |-> 0, merch_lat |-> 0, merch_long |-> 0,
     hour |-> 12, day |-> 15, month |-> 6, gender |-> "Male", cc_num |-> ""]

ScenarioForm ==
    [merchant |-> "Acme", category |-> "grocery", amt |-> 45,
     lat |-> 40, long |-> -73, merch_lat |-> 41, merch_long |-> -74,
     hour |-> 14, day |-> 5, month |-> 3, gender |-> "Male", cc_num |-> "4111"]

\* What the widgets are edited to.
Forms ==
    { ScenarioForm,
      [ScenarioForm EXCEPT !.merchant = ""],
      [ScenarioForm EXCEPT !.merchant = "Zed", !.category = "misc",
                           !.gender = "Female", !.cc_num = "5500", !.amt = 900],
      [ScenarioForm EXCEPT !.lat = 200],
      [ScenarioForm EXCEPT !.long = 200] }

(***************************************************************************)
(* load_models and its cache.                                              *)
(***************************************************************************)
\* Variant: load_models without its except clause.
LoadModelsNoExcept(f, d) ==
    IF f = "ok"
    THEN [raised |-> FALSE, model |-> Some(d.model), encoder |-> Some(d.encoder),
          error |-> FALSE]
    ELSE [raised |-> TRUE, model |-> None, encoder |-> None, error |-> FALSE]

\* The body of load_models: FileNotFoundError, the only exception it
\* handles, gives the error message and the empty pair; any other
\* exception of joblib.load leaves the function.
LoadModelsBody(f, d) ==
    IF f = "missing" THEN
        [raised |-> FALSE, model |-> None, encoder |-> None, error |-> TRUE]
    ELSE IF f = "corrupt" THEN
        [raised |-> TRUE, model |-> None, encoder |-> None, error |-> FALSE]
    ELSE
        [raised |-> FALSE, model |-> Some(d.model), encoder |-> Some(d.encoder),
         error |-> FALSE]

EmptyCache == [filled |-> FALSE, model |-> None, encoder |-> None, error |-> FALSE]

\* Variant: load_models without st.cache_resource; every call runs the body.
UncachedLoadModels(c, f, d) ==
    LET r == LoadModelsBody(f, d) IN
    IF r.raised THEN [cache |-> c, raised |-> TRUE, ran |-> TRUE]
    ELSE [cache |-> [filled |-> TRUE, model |-> r.model,
                     encoder |-> r.encoder, error |-> r.error],
          raised |-> FALSE, ran |-> TRUE]

\* The decorated call load_models(): a filled entry is returned as it is;
\* otherwise the body runs and its return value (not an exception) is stored.
CachedLoadModels(c, f, d) ==
    IF c.filled THEN [cache |-> c, raised |-> FALSE, ran |-> FALSE]
    ELSE LET r == LoadModelsBody(f, d) IN
         IF r.raised THEN [cache |-> c, raised |-> TRUE, ran |-> TRUE]
         ELSE [cache |-> [filled |-> TRUE, model |-> r.model,
                          encoder |-> r.encoder, error |-> r.error],
               raised |-> FALSE, ran |-> TRUE]

(***************************************************************************)
(* haversine.  geodesic rejects a latitude outside [-90, 90] with a        *)
(* ValueError and wraps a longitude outside [-180, 180] into that range.   *)
(* The kilometre value is a stand-in for the ellipsoidal distance: 111 km  *)
(* per degree of latitude difference plus wrapped longitude difference; it *)
(* is zero exactly when the two normalised points coincide.                *)
(***************************************************************************)
Abs(x) == IF x < 0 THEN -x ELSE x

NormLon(lon) == IF Abs(lon) > 180 THEN ((lon + 180) % 360) - 180 ELSE lon

Geodesic(lat1, lon1, lat2, lon2) ==
    IF Abs(lat1) > 90 \/ Abs(lat2) > 90 THEN [valueError |-> TRUE, km |-> 0]
    ELSE LET d == Abs(NormLon(lon1) - NormLon(lon2))
             dlon == IF d > 180 THEN 360 - d ELSE d
         IN [valueError |-> FALSE, km |-> 111 * (Abs(lat1 - lat2) + dlon)]

haversine(lat1, lon1, lat2, lon2) ==
    LET g == Geodesic(lat1, lon1, lat2, lon2) IN
    IF g.valueError THEN 0 ELSE g.km

(***************************************************************************)
(* Preprocessing.                                                          *)
(***************************************************************************)
Columns ==
    <<"merchant", "category", "amt", "distance", "hour", "day", "month",
      "gender", "cc_num">>

categorical_col == <<"merchant", "category", "gender">>

Sentinel == -1

HashMod == 100

\* input_data: one row, as the sequence of <<column, value>> in column order.
InputData(f, distance) ==
    LET values == << f.merchant, f.category, f.amt, distance, f.hour, f.day,
                     f.month, f.gender, f.cc_num >>
    IN [k \in DOMAIN values |-> <<Columns[k], values[k]>>]

Get(row, col) == LET i == CHOOSE k \in DOMAIN row : row[k][1] = col IN row[i][2]

Put(row, col, v) ==
    [k \in DOMAIN row |-> IF row[k][1] = col THEN <<col, v>> ELSE row[k]]

\* LabelEncoder.transform on one value: its index in the sorted classes, or
\* a ValueError for a value that is not among them.
Transform(classes, v) ==
    IF \E i \in DOMAIN classes : classes[i] = v
    THEN [valueError |-> FALSE,
          code |-> (CHOOSE i \in DOMAIN classes : classes[i] = v) - 1]
    ELSE [valueError |-> TRUE, code |-> 0]

\* Variant: the loop body without its inner try/except; an unseen value's
\* ValueError leaves the loop.
EncodeColNoSentinel(encoder, col, v) ==
    IF col \notin DOMAIN encoder THEN [raised |-> TRUE, value |-> Sentinel]
    ELSE LET t == Transform(encoder[col], v) IN
         [raised |-> t.valueError, value |-> t.code]

\* One pass of the loop body: encoder[col] raises KeyError (which the inner
\* except does not handle) when the mapping has no such column.
EncodeCol(encoder, col, v) ==
    IF col \notin DOMAIN encoder THEN [raised |-> TRUE, value |-> Sentinel]
    ELSE LET t == Transform(encoder[col], v) IN
         [raised |-> FALSE, value |-> IF t.valueError THEN Sentinel ELSE t.code]

\* hash(x) of a string: a signed integer that depends on the process's seed.
PyHash(seed, x) ==
    IF x = "" THEN 0
    ELSE IF seed = "seedA" THEN (IF x = "4111" THEN -101 ELSE 257)
    ELSE (IF x = "4111" THEN 42 ELSE -300)

\* Variant: a remainder that takes the sign of the dividend (as C's % does).
HashCardTruncating(seed, x) ==
    LET h == PyHash(seed, x) IN
    IF h < 0 THEN -((-h) % HashMod) ELSE h % HashMod

\* hash(x) % (10 ** 2); Python's % takes the sign of the divisor.
HashCard(seed, x) == PyHash(seed, x) % HashMod

\* model.predict(row)[0] for the representative classifiers.
Predict(model, row) ==
    IF model = "broken" THEN [raised |-> TRUE, label |-> 0]
    ELSE IF model = "byAmount" THEN
        [raised |-> FALSE, label |-> IF Get(row, "amt") > 500 THEN 1 ELSE 0]
    ELSE
        [raised |-> FALSE,
         label |-> IF Get(row, "cc_num") < 20 \/ Get(row, "merchant") = Sentinel
                   THEN 1 ELSE 0]

(***************************************************************************)
(* The submission handler (the block under "if submitted").  A run record  *)
(* tells what the script run did: whether st.stop() ended it, the distance *)
(* computed, whether input_data was built, the row given to model.predict, *)
(* the elements rendered in order, and the row shown in the expander.      *)
(***************************************************************************)
NoRun ==
    [submitted |-> FALSE, loadError |-> FALSE, stopped |-> FALSE, dist |-> None,
     built |-> FALSE, predicted |-> None, out |-> <<>>, shown |-> None]

\* "not model or not encoder" is false: both objects are truthy.
ArtifactsReady(model, encoder) ==
    /\ model # None
    /\ encoder # None
    /\ DOMAIN encoder[1] # {}

\* Variant: any([...]) in place of all([...]).
RequiredAny(f) == f.merchant # "" \/ f.category # "" \/ f.cc_num # ""

\* all([merchant, category, cc_num])
RequiredFilled(f) == f.merchant # "" /\ f.category # "" /\ f.cc_num # ""

\* Steps 1 to 4 of the try block: the distance, input_data, the encoding
\* loop over a copy, and the card hash.  raised: a KeyError left the loop.
Preprocess(f, encoder, seed) ==
    LET distance == haversine(f.lat, f.long, f.merch_lat, f.merch_long)
        input_data == InputData(f, distance)
        enc == [i \in DOMAIN categorical_col |->
                   EncodeCol(encoder, categorical_col[i],
                             Get(input_data, categorical_col[i]))]
        encoded == Put(Put(Put(input_data, "merchant", enc[1].value),
                           "category", enc[2].value), "gender", enc[3].value)
    IN  [raised |-> \E i \in DOMAIN enc : enc[i].raised,
         distance |-> distance,
         processed |-> Put(encoded, "cc_num",
                           HashCard(seed, Get(encoded, "cc_num")))]

\* Variant: the second verdict is not under an else.
PresentBothVerdicts(label, processed, renderOk) ==
    LET verdicts == IF label = 1 THEN <<"fraud", "legit">> ELSE <<"legit">> IN
    IF renderOk
    THEN [out |-> verdicts \o <<"processed_data">>, shown |-> Some(processed)]
    ELSE [out |-> verdicts \o <<"generic_error">>, shown |-> None]

\* Variant: the processed row is shown before the verdict, so a failure to
\* show it leaves the try block before any verdict.
PresentRowFirst(label, processed, renderOk) ==
    LET verdict == IF label = 1 THEN "fraud" ELSE "legit" IN
    IF renderOk
    THEN [out |-> <<"processed_data", verdict>>, shown |-> Some(processed)]
    ELSE [out |-> <<"generic_error">>, shown |-> None]

\* Step 6 and the expander: the verdict, then the processed row.  renderOk
\* tells whether showing the row (st.expander, st.dataframe) succeeds; its
\* exception reaches the handler's except clause after the verdict is out.
Present(label, processed, renderOk) ==
    LET verdict == IF label = 1 THEN "fraud" ELSE "legit" IN
    IF renderOk
    THEN [out |-> <<verdict, "processed_data">>, shown |-> Some(processed)]
    ELSE [out |-> <<verdict, "generic_error">>, shown |-> None]

\* The try block with its except clause.
TryBody(f, model, encoder, seed, renderOk) ==
    LET pre == Preprocess(f, encoder, seed)
        p == Predict(model, pre.processed)
        shownRun == Present(p.label, pre.processed, renderOk)
        base == [NoRun EXCEPT !.dist = Some(pre.distance), !.built = TRUE]
    IN  IF pre.raised THEN
            [base EXCEPT !.out = <<"generic_error">>]
        ELSE IF p.raised THEN
            [base EXCEPT !.predicted = Some(pre.processed),
                         !.out = <<"generic_error">>]
        ELSE
            [base EXCEPT !.predicted = Some(pre.processed),
                         !.out = shownRun.out, !.shown = shownRun.shown]

Handler(f, model, encoder, seed, renderOk) ==
    IF ~ArtifactsReady(model, encoder) THEN [NoRun EXCEPT !.stopped = TRUE]
    ELSE IF ~RequiredFilled(f) THEN [NoRun EXCEPT !.out = <<"validation_error">>]
    ELSE TryBody(f, model[1], encoder[1], seed, renderOk)

(***************************************************************************)
(* Actions.                                                                *)
(***************************************************************************)
Init ==
    /\ files \in FileStates
    /\ \E d \in Deployments :
          /\ disk = [model |-> d.model, encoder |-> d.encoder]
          /\ hashseed = d.seed
    /\ cache = EmptyCache
    /\ nloads = 0
    /\ page = [s \in Sessions |-> "closed"]
    /\ form = [s \in Sessions |-> DefaultForm]
    /\ edited = [s \in Sessions |-> FALSE]
    /\ run = [s \in Sessions |-> NoRun]

\* One run of the script for session s: load_models() at line 28, the form,
\* and, when the submit button triggered the run, the handler.
ScriptRun(s, submitted, renderOk) ==
    LET call == CachedLoadModels(cache, files, disk) IN
    /\ call.ran => nloads < MaxLoads
    /\ cache' = call.cache
    /\ nloads' = IF call.ran THEN nloads + 1 ELSE nloads
    /\ edited' = [edited EXCEPT ![s] = FALSE]
    /\ IF call.raised THEN
           /\ page' = [page EXCEPT ![s] = "crashed"]
           /\ run' = [run EXCEPT ![s] = NoRun]
       ELSE
           /\ page' = [page EXCEPT ![s] = IF submitted THEN "submitted" ELSE "idle"]
           /\ run' = [run EXCEPT ![s] =
                  [(IF submitted
                    THEN Handler(form[s], call.cache.model, call.cache.encoder,
                                 hashseed, renderOk)
                    ELSE NoRun)
                   EXCEPT !.submitted = submitted,
                          !.loadError = call.cache.error]]

\* A browser opens or reloads the page: a new session with default widgets.
Open(s) ==
    /\ ScriptRun(s, FALSE, TRUE)
    /\ form' = [form EXCEPT ![s] = DefaultForm]
    /\ UNCHANGED <<files, disk, hashseed>>

\* Variant: the widgets are not inside st.form, so an edit re-runs the script.
EditReruns(s) ==
    /\ page[s] \in {"idle", "submitted"}
    /\ \E f \in Forms \ {form[s]} : form' = [form EXCEPT ![s] = f]
    /\ ScriptRun(s, FALSE, TRUE)
    /\ UNCHANGED <<files, disk, hashseed>>

\* Widgets inside the form are edited; no script run happens.
Edit(s) ==
    /\ page[s] \in {"idle", "submitted"}
    /\ \E f \in Forms \ {form[s]} : form' = [form EXCEPT ![s] = f]
    /\ edited' = [edited EXCEPT ![s] = TRUE]
    /\ UNCHANGED <<files, disk, hashseed, cache, nloads, page, run>>

\* "Check For Fraud" is pressed.
Submit(s) ==
    /\ page[s] \in {"idle", "submitted"}
    /\ \E renderOk \in BOOLEAN : ScriptRun(s, TRUE, renderOk)
    /\ UNCHANGED <<files, disk, hashseed, form>>

\* The environment adds, removes or damages the artifact files.
FsChange ==
    /\ \E f \in FileStates \ {files} : files' = f
    /\ UNCHANGED <<disk, hashseed, cache, nloads, page, form, edited, run>>

Next ==
    \/ \E s \in Sessions : Open(s)
    \/ \E s \in Sessions : Edit(s)
    \/ \E s \in Sessions : Submit(s)
    \/ FsChange

Spec == Init /\ [][Next]_vars

(***************************************************************************)
(* Vocabulary of the properties.  It is written against the state alone,   *)
(* apart from the operators that model the code.                           *)
(***************************************************************************)
\* run[s] is the result of submitting the values form[s] now holds.
Submitted(s) == page[s] = "submitted" /\ ~edited[s]

Shows(s, e) == \E i \in DOMAIN run[s].out : run[s].out[i] = e

NVerdicts(s) ==
    Cardinality({i \in DOMAIN run[s].out : run[s].out[i] \in {"fraud", "legit"}})

FieldsFilled(s) ==
    form[s].merchant # "" /\ form[s].category # "" /\ form[s].cc_num # ""

\* The cached pair passes "not model or not encoder".
PairUsable ==
    /\ cache.filled
    /\ cache.model # <<>>
    /\ cache.encoder # <<>>
    /\ DOMAIN cache.encoder[1] # {}

Cell(row, col) == row[CHOOSE k \in DOMAIN row : row[k][1] = col][2]

NothingComputed(s) ==
    /\ run[s].dist = <<>>
    /\ ~run[s].built
    /\ run[s].predicted = <<>>
    /\ run[s].shown = <<>>
    /\ NVerdicts(s) = 0

EncodedColumns == {"merchant", "category", "gender"}

\* C1 (as stated): every submission with the three required fields filled
\* renders exactly one verdict.
C1_ExactlyOneVerdict ==
    \A s \in Sessions : (Submitted(s) /\ FieldsFilled(s)) => NVerdicts(s) = 1

\* C1 (amended): a submission with the three required fields filled never
\* renders both verdicts, and it renders exactly one verdict exactly when
\* the cached pair passes the artifact check, the encoder mapping has the
\* three categorical columns and the classifier's prediction does not raise;
\* otherwise it renders no verdict.
C1_OneVerdictWhenPredicted ==
    \A s \in Sessions :
        (Submitted(s) /\ FieldsFilled(s)) =>
            /\ NVerdicts(s) <= 1
            /\ ~(Shows(s, "fraud") /\ Shows(s, "legit"))
            /\ (NVerdicts(s) = 1) <=>
                   /\ PairUsable
                   /\ EncodedColumns \subseteq DOMAIN cache.encoder[1]
                   /\ cache.model[1] # "broken"

C1_Witness ==
    \E s \in Sessions :
        /\ Submitted(s) /\ FieldsFilled(s)
        /\ run[s].out = <<"fraud", "processed_data">>

\* C2 (as stated): every submission with an empty required field shows the
\* validation error, builds no row and does not invoke the classifier.
C2_EmptyFieldRejected ==
    \A s \in Sessions :
        (Submitted(s) /\ ~FieldsFilled(s)) =>
            /\ Shows(s, "validation_error")
            /\ ~run[s].built
            /\ run[s].predicted = <<>>

\* C2 (amended): a submission with an empty required field computes no
\* distance, builds no row, does not invoke the classifier and renders no
\* verdict; it shows the validation error, and nothing else, exactly when
\* the cached pair passes the artifact check; when the pair does not pass,
\* the run stops before the validation and shows no validation message.
C2_EmptyFieldNoPrediction ==
    \A s \in Sessions :
        (Submitted(s) /\ ~FieldsFilled(s)) =>
            /\ NothingComputed(s)
            /\ PairUsable => (run[s].out = <<"validation_error">> /\ ~run[s].stopped)
            /\ ~PairUsable => (run[s].out = <<>> /\ run[s].stopped)

C2_Witness ==
    \E s \in Sessions :
        /\ Submitted(s)
        /\ form[s].merchant = "" /\ form[s].category # "" /\ form[s].cc_num # ""
        /\ run[s].out = <<"validation_error">>

\* C3: when the loader body runs with the artifact files missing it reports
\* the error and caches the empty pair, which is shown to the session that
\* ran it; while the empty pair is cached it stays cached and every session's
\* run halts before the preprocessor: no distance, no row, no prediction,
\* nothing rendered by the handler.
C3_MissingArtifactsHalt ==
    /\ [][(nloads' # nloads /\ files = "missing") =>
              /\ cache'.filled /\ cache'.error
              /\ cache'.model = <<>> /\ cache'.encoder = <<>>
              /\ \E s \in Sessions : page'[s] = "idle" /\ run'[s].loadError]_vars
    /\ [][(cache.filled /\ cache.error) => cache' = cache]_vars
    /\ [](\A s \in Sessions :
             (cache.filled /\ cache.error) =>
                 /\ NothingComputed(s)
                 /\ run[s].out = <<>>
                 /\ run[s].submitted => run[s].stopped)

C3_Witness ==
    /\ cache.filled /\ cache.error /\ files = "ok"
    /\ \E s \in Sessions :
           Submitted(s) /\ FieldsFilled(s) /\ run[s].stopped /\ run[s].loadError

\* C4: whenever the generic error message is rendered, nothing else of the
\* submission's result is: no verdict and no processed row.
C4_NoPartialResult ==
    \A s \in Sessions :
        Shows(s, "generic_error") =>
            /\ NVerdicts(s) = 0
            /\ run[s].shown = <<>>
            /\ run[s].out = <<"generic_error">>

\* C5: for a validated submission handled with a mapping that has an encoder
\* for each categorical column, the row given to the classifier holds, in
\* each categorical column, the position of the value among the encoder's
\* classes (counted from 0) when the value is among them and -1 when it is
\* not; in both cases the submission reaches the prediction.
C5_EncodeOrSentinel ==
    \A s \in Sessions :
        ( /\ Submitted(s) /\ FieldsFilled(s) /\ PairUsable
          /\ EncodedColumns \subseteq DOMAIN cache.encoder[1] ) =>
            /\ run[s].predicted # <<>>
            /\ \A c \in EncodedColumns :
                   LET classes == cache.encoder[1][c]
                       got == Cell(run[s].predicted[1], c)
                   IN  IF \E i \in DOMAIN classes : classes[i] = form[s][c]
                       THEN \E i \in DOMAIN classes :
                                classes[i] = form[s][c] /\ got = i - 1
                       ELSE got = -1

C5_Witness ==
    \E s \in Sessions :
        /\ Submitted(s) /\ form[s].merchant = "Zed" /\ form[s].gender = "Female"
        /\ run[s].predicted # <<>>
        /\ Cell(run[s].predicted[1], "merchant") = -1
        /\ Cell(run[s].predicted[1], "gender") = 0
        /\ NVerdicts(s) = 1

\* C6: a submission whose coordinates hold an out-of-range latitude or an
\* out-of-range longitude, and that reaches the distance step, computes the
\* distance 0.
C6_OutOfRangeIsZero ==
    \A s \in Sessions :
        ( /\ Submitted(s) /\ run[s].dist # <<>>
          /\ \/ form[s].lat > 90 \/ form[s].lat < -90
             \/ form[s].merch_lat > 90 \/ form[s].merch_lat < -90
             \/ form[s].long > 180 \/ form[s].long < -180
             \/ form[s].merch_long > 180 \/ form[s].merch_long < -180 ) =>
            run[s].dist[1] = 0

\* C7: every row given to the classifier has the nine columns merchant,
\* category, amt, distance, hour, day, month, gender, cc_num in this order,
\* and its cc_num is an integer from 0 to 99.
C7_RowShape ==
    \A s \in Sessions :
        run[s].predicted # <<>> =>
            LET row == run[s].predicted[1] IN
            /\ [k \in DOMAIN row |-> row[k][1]] =
                   <<"merchant", "category", "amt", "distance", "hour", "day",
                     "month", "gender", "cc_num">>
            /\ row[9][2] \in 0..99

C7_Witness ==
    \E s \in Sessions :
        /\ Submitted(s) /\ run[s].predicted # <<>>
        /\ PyHash(hashseed, form[s].cc_num) < 0
        /\ Cell(run[s].predicted[1], "cc_num") = 99

C9_SubmitOnly ==
    /\ [][\A s \in Sessions :
              /\ (form'[s] # form[s] /\ form'[s] # DefaultForm) =>
                     (run'[s] = run[s] /\ page'[s] = page[s] /\ edited'[s])
              /\ (run'[s] # run[s] /\ (run'[s].out # <<>> \/ run'[s].stopped)) =>
                     /\ run'[s].submitted /\ page'[s] = "submitted"
                     /\ form'[s] = form[s] /\ ~edited'[s]
                     /\ page[s] \in {"idle", "submitted"}
              /\ page[s] = "submitted" => page'[s] \in {"submitted", "idle"}]_vars
    /\ [](\A s \in Sessions :
             /\ page[s] \in {"closed", "crashed", "idle"} =>
                    (run[s].out = <<>> /\ ~run[s].stopped /\ ~run[s].submitted
                     /\ NothingComputed(s))
             /\ page[s] = "submitted" => run[s].submitted)

C9_Witness ==
    \E s \in Sessions :
        /\ page[s] = "submitted" /\ edited[s] /\ form[s].merchant = ""
        /\ run[s].out = <<"legit", "processed_data">>

\* C10: two submissions of the same field values in one process give the
\* classifier the same row and render the same verdict, and agree on
\* whether the run stopped and on the distance, whatever happened before.
C10_SameInputSameResult ==
    \A s, t \in Sessions :
        (Submitted(s) /\ Submitted(t) /\ form[s] = form[t]) =>
            /\ run[s].predicted = run[t].predicted
            /\ run[s].dist = run[t].dist
            /\ run[s].stopped = run[t].stopped
            /\ Shows(s, "fraud") = Shows(t, "fraud")
            /\ Shows(s, "legit") = Shows(t, "legit")
            /\ Shows(s, "validation_error") = Shows(t, "validation_error")

C10_Witness ==
    \E s, t \in Sessions :
        /\ Submitted(s) /\ Submitted(t) /\ form[s] = form[t]
        /\ run[s].shown # <<>> /\ run[t].shown = <<>>
        /\ Shows(s, "fraud") /\ Shows(t, "fraud")

====
